---- MODULE Spec2Model ----
(***************************************************************************)
(* Portunus: the Nexus (reducer hub), its listeners, the database seed and *)
(* the file store round trip, the slapd supervisor, the validation rules   *)
(* and the self-service form, as state machines.                           *)
(***************************************************************************)
EXTENDS Integers, Sequences, FiniteSets, TLC

(***************************************************************************)
(* Bounds of the model.                                                    *)
(***************************************************************************)
NumThreads == 2
MaxListeners == 2
MaxCommits == 2

Threads == 1..NumThreads
NoThread == 0

VARIABLES
    seed,        \* nexusImpl.seed: <<>> for nil, <<s>> for a *DatabaseSeed
    db,          \* nexusImpl.db: the current Database
    listeners,   \* nexusImpl.listeners: sequence of [cancelled, kind]
    mutex,       \* nexusImpl.mutex: the thread holding it, or NoThread
    pc,          \* per thread: where it is inside AddListener / Update
    idx,         \* per thread: position of the fan-out loop of Update
    arg,         \* per thread: <<>> or <<d>>, the database a file reload hands to Update
    file,        \* the database file on disk: <<>> or <<bytes>>
    fileChanged, \* a file change notification is pending
    commitCount, \* number of assignments n.db = newDB so far
    received,    \* per listener: the commit numbers its callback was handed
    last,        \* what the last step did (call, reducer, result, callbacks)
    environment, \* the map[string]string handed to renderSlapdConfig and runLDAPServer
    slapdConf,   \* the bytes renderSlapdConfig returned: <<>> or <<config>>
    cmd,         \* the exec.Cmd of runLDAPServer: its arguments and the child's state
    supervisor,  \* where the goroutine running runLDAPServer is
    exitCode,    \* <<>> while the Portunus process runs, <<c>> once it exited with c
    served,      \* HTTP requests the process has served
    members,     \* GroupMemberNames values and what (Un)MarshalJSON made of them
    uidCheck,    \* a form value and what MustBePosixUIDorGID returned for it
    engine,      \* the users the core.Engine holds, by login name
    interaction  \* the Interaction of one POST /self request

nexusVars == <<seed, db, listeners, mutex, pc, idx, arg, file, fileChanged,
               commitCount, received, last>>
slapdVars == <<environment, slapdConf, cmd, supervisor, exitCode, served>>
ruleVars == <<members, uidCheck>>
selfVars == <<engine, interaction>>

vars == <<nexusVars, slapdVars, ruleVars, selfVars>>

(***************************************************************************)
(* Database values.  A Database maps logins to users and names to groups.  *)
(***************************************************************************)
NoPosix == [set |-> FALSE, gid |-> -1]
EmptyPosix == [set |-> TRUE, gid |-> -1]
PosixGid(g) == [set |-> TRUE, gid |-> g]

NameOrder == <<"admin", "admins", "bob">>

MkUser(g, f, p) == [given_name |-> g, family_name |-> f, posix |-> p]
MkGroup(gid, m) == [long_name |-> "Admins", posix_gid |-> gid, members |-> m]

\* the function whose graph is the given set of <<key, value>> pairs
MapOf(entries) ==
    [k \in {e[1] : e \in entries} |-> (CHOOSE e \in entries : e[1] = k)[2]]

\* the zero value of Database
EmptyDB == [users |-> MapOf({}), groups |-> MapOf({})]

MkDB(admin, bob, admins) ==
    [users |-> MapOf({<<"admin", u>> : u \in admin} \cup {<<"bob", u>> : u \in bob}),
     groups |-> MapOf({<<"admins", g>> : g \in admins})]

IsEmpty(d) == DOMAIN d.users = {} /\ DOMAIN d.groups = {}

NormalizePosix(p) == IF p = EmptyPosix THEN NoPosix ELSE p

Normalize(d) ==
    [users |-> [l \in DOMAIN d.users |->
                   [d.users[l] EXCEPT !.posix = NormalizePosix(@)]],
     groups |-> d.groups]

\* Cloned copies the value held in cell "cur" into the fresh cell "clone"
Cloned(store) == [cur |-> store.cur, clone |-> store.cur]

DeepEqual(a, b) == a = b

(***************************************************************************)
(* The database seed.                                                      *)
(***************************************************************************)
\* the seed of scenario S3: it pins given_name of user admin to "A"
TheSeed == [users |-> MapOf({<<"admin", MapOf({<<"given_name", "A">>})>>})]

ZeroUser == MkUser("", "", NoPosix)

SeedField(su, f, old) == IF f \in DOMAIN su THEN su[f] ELSE old

ApplyTo(sd, d) ==
    [users |-> [l \in DOMAIN d.users \cup DOMAIN sd.users |->
                   IF l \in DOMAIN sd.users
                   THEN LET base == IF l \in DOMAIN d.users THEN d.users[l] ELSE ZeroUser
                        IN  [base EXCEPT
                               !.given_name = SeedField(sd.users[l], "given_name", @),
                               !.family_name = SeedField(sd.users[l], "family_name", @)]
                   ELSE d.users[l]],
     groups |-> d.groups]

ValidationError(kind, name, field, msg) ==
    [kind |-> kind, name |-> name, field |-> field, message |-> msg]

CheckConflicts(sd, d) ==
    {ValidationError("user", l, f, "pinned by seed") :
        <<l, f>> \in {p \in {<<l2, f2>> : l2 \in DOMAIN sd.users,
                                        f2 \in {"given_name", "family_name"}} :
                        /\ p[2] \in DOMAIN sd.users[p[1]]
                        /\ \/ p[1] \notin DOMAIN d.users
                           \/ d.users[p[1]][p[2]] # sd.users[p[1]][p[2]]}}

(***************************************************************************)
(* Serialization.                                                          *)
(***************************************************************************)
\* sort.Strings over the names of the model
SortStrings(S) == SelectSeq(NameOrder, LAMBDA n : n \in S)

Range(s) == {s[i] : i \in DOMAIN s}

MarshalJSONAll(g) == SortStrings(DOMAIN g)

\* GroupMemberNames.MarshalJSON: the names mapped to true, sorted
MarshalJSON(g) == SortStrings({name \in DOMAIN g : g[name]})

\* GroupMemberNames.UnmarshalJSON: every listed name mapped to true
UnmarshalJSON(data) == [name \in Range(data) |-> TRUE]

MarshalDB(d) ==
    [users |-> LET ks == SortStrings(DOMAIN d.users)
               IN  [i \in DOMAIN ks |-> [login_name |-> ks[i], user |-> d.users[ks[i]]]],
     groups |-> LET ks == SortStrings(DOMAIN d.groups)
                IN  [i \in DOMAIN ks |->
                       [name |-> ks[i],
                        long_name |-> d.groups[ks[i]].long_name,
                        posix_gid |-> d.groups[ks[i]].posix_gid,
                        members |-> MarshalJSON(d.groups[ks[i]].members)]]]

UnmarshalDB(bytes) ==
    [users |-> MapOf({<<bytes.users[i].login_name, bytes.users[i].user>> :
                        i \in DOMAIN bytes.users}),
     groups |-> MapOf({<<bytes.groups[i].name,
                         [long_name |-> bytes.groups[i].long_name,
                          posix_gid |-> bytes.groups[i].posix_gid,
                          members |-> UnmarshalJSON(bytes.groups[i].members)]>> :
                        i \in DOMAIN bytes.groups})]

(***************************************************************************)
(* Reducers and update options: the inputs of Nexus.Update.                *)
(***************************************************************************)
NoErr == ""

\* user admin: absent, as the seed wants it, with the pinned given_name changed, and
\* with the pinned given_name and the free family_name changed
AdminChoices ==
    {{}, {MkUser("A", "", NoPosix)}, {MkUser("B", "", NoPosix)},
     {MkUser("B", "E", NoPosix)}}
BobChoices ==
    {{}, {MkUser("Bob", "", EmptyPosix)}, {MkUser("Bob", "", PosixGid(1001))}}
GroupChoices ==
    {{}} \cup {{MkGroup(1001, MapOf(m))} :
                  m \in {{}, {<<"bob", TRUE>>}, {<<"bob", FALSE>>}}}

\* the databases a reducer of the single caller may return: every admin alone, and
\* user bob with and without a group that has his posix gid
Databases ==
    {MkDB(a, {}, {}) : a \in AdminChoices}
        \cup {MkDB({}, b, {}) : b \in BobChoices}
        \cup {MkDB({}, {MkUser("Bob", "", PosixGid(1001))},
                   {MkGroup(1001, MapOf({<<"bob", TRUE>>}))})}

\* the databases a reducer may return in the file store scenario: group admins with
\* every member map, with and without user bob
StoreDatabases ==
    {MkDB({}, b, g) : b \in {{}, {MkUser("Bob", "", NoPosix)}}, g \in GroupChoices}

\* what a failing reducer of the model leaves in the Database it was handed
Scribbles == {MkDB({MkUser("B", "E", NoPosix)}, {}, {})}

\* a Reducer, by what it does to the Database it is handed:
\*   identity  returns its input unchanged
\*   mutate    overwrites the handed Database with value and returns it
\*   error     overwrites the handed Database with value and returns an error
\*   load      returns value (a Database read from the file) and leaves its input alone
ReducersOver(ds) ==
    {[kind |-> "identity", value |-> EmptyDB]}
        \cup {[kind |-> "mutate", value |-> d] : d \in ds}
        \cup {[kind |-> "error", value |-> d] : d \in Scribbles}

Reducers == ReducersOver(Databases)

LoadReducer(d) == [kind |-> "load", value |-> d]

\* the reducer runs on the cell "clone" of the store
RunReducer(r, store) ==
    CASE r.kind = "identity" -> [store |-> store, db |-> store.clone, err |-> NoErr]
      [] r.kind = "mutate" ->
            [store |-> [store EXCEPT !.clone = r.value], db |-> r.value, err |-> NoErr]
      [] r.kind = "error" ->
            [store |-> [store EXCEPT !.clone = r.value], db |-> EmptyDB,
             err |-> "reducer failed"]
      [] r.kind = "load" -> [store |-> store, db |-> r.value, err |-> NoErr]

\* optsPtr: <<>> for nil, <<o>> for a pointer to the UpdateOptions o
OptsPtrs == {<<>>} \cup {<<[ConflictWithSeedIsError |-> b]>> : b \in BOOLEAN}

OptsOf(optsPtr) ==
    IF optsPtr # <<>> THEN optsPtr[1] ELSE [ConflictWithSeedIsError |-> FALSE]

(***************************************************************************)
(* The body of Nexus.Update between Lock and the fan-out.                  *)
(***************************************************************************)
\* errs after the seed was enforced
SeedErrs(sd, opts, newDB) ==
    IF sd # <<>> /\ opts.ConflictWithSeedIsError
    THEN CheckConflicts(sd[1], newDB)
    ELSE {}

\* newDB after the seed was enforced
SeedEnforced(sd, opts, newDB) ==
    IF sd # <<>> /\ ~opts.ConflictWithSeedIsError
    THEN ApplyTo(sd[1], newDB)
    ELSE newDB

\* a slip: the reducer's result is assigned to n.db before err is looked at
DbOnReducerErrorAssigned(store, res) == res.db

\* n.db when the reducer has failed: Update returns before it assigns n.db
DbOnReducerError(store, res) == store.cur

\* the value Update returns once the reducer has succeeded: both returns are "return nil"
ReturnedErrs(errs) == {}

\* a slip: the comparison with the current database is left out
IsChangeAlways(cur, newDB) == TRUE

\* whether Update stores newDB and informs the listeners
IsChange(cur, newDB) == ~DeepEqual(cur, newDB)

UpdateOutcome(sd, cur, reducer, optsPtr) ==
    LET opts == OptsOf(optsPtr)
        res == RunReducer(reducer, Cloned([cur |-> cur, clone |-> EmptyDB]))
    IN  IF res.err # NoErr
        THEN [db |-> DbOnReducerError(res.store, res), errs |-> {res.err},
              seedErrs |-> {}, commit |-> FALSE]
        ELSE LET newDB == Normalize(res.db)
                 errs == SeedErrs(sd, opts, newDB)
                 enforced == SeedEnforced(sd, opts, newDB)
             IN  IF IsChange(res.store.cur, enforced)
                 THEN [db |-> enforced, errs |-> ReturnedErrs(errs),
                       seedErrs |-> errs, commit |-> TRUE]
                 ELSE [db |-> res.store.cur, errs |-> ReturnedErrs(errs),
                       seedErrs |-> errs, commit |-> FALSE]

(***************************************************************************)
(* Listeners and their callbacks.                                          *)
(***************************************************************************)
\* what a callback does with the snapshot it is handed:
\*   record            keeps it
\*   save              writes it to the database file (the outbound file store listener)
\*   reenters          calls Nexus.Update or Nexus.AddListener synchronously

\* a listener: its context (cancelled or not) and its callback; told (AddListener
\* has called it right away) and skipped (a fan-out has found its context expired)
\* record its history
Listener(cancelled, kind, told) ==
    [cancelled |-> cancelled, kind |-> kind, told |-> told, skipped |-> FALSE]

\* ctx.Err() == nil
CtxLive(l) == ~l.cancelled

\* where the calling thread may be after the callback was entered: at the Lock of
\* the call the callback makes, or back in the caller
AfterCallback(kind, resume) ==
    IF kind = "reenters" THEN {"Update", "AddListener"} ELSE {resume}

\* the snapshot a callback is handed: n.db.Cloned()
Snapshot(cur) == Cloned([cur |-> cur, clone |-> EmptyDB]).clone

\* FileStore.Save from the outbound listener
SaveEffect(kind, snap) ==
    IF kind = "save"
    THEN /\ file' = <<MarshalDB(snap)>>
         /\ fileChanged' = TRUE
    ELSE UNCHANGED <<file, fileChanged>>

Step(op, t, reducer, optsPtr, returned, errs, called, snap) ==
    [op |-> op, t |-> t, reducer |-> reducer, optsPtr |-> optsPtr,
     returned |-> returned, errs |-> errs, seedErrs |-> {}, called |-> called,
     snapshot |-> snap]

\* a slip: no mutual exclusion
CanLockAlways(t) == TRUE

\* a slip: a mutex its holder may lock again
CanLockReentrant(t) == mutex \in {NoThread, t}

\* sync.Mutex: Lock succeeds only while nobody holds the mutex
CanLock(t) == mutex = NoThread

\* a slip: the new listener is told whatever the database and its context are
TellRightAwayAlways(d, l) == TRUE

\* AddListener tells the new listener about the current database right away
TellRightAway(d, l) == ~IsEmpty(d) /\ CtxLive(l)

(***************************************************************************)
(* Initial state: NewNexus(d), no listeners, every thread outside the      *)
(* Nexus, no database file yet.                                            *)
(***************************************************************************)
\* no slapd supervisor: no environment read, nothing rendered, no goroutine
NoSlapd ==
    /\ environment = <<>>
    /\ slapdConf = <<>>
    /\ cmd = <<>>
    /\ supervisor = "off"
    /\ exitCode = <<>>
    /\ served = 0

\* no validation rule and no member serialization under way
NoRules == members = <<>> /\ uidCheck = <<>>

\* no self-service request under way
NoSelf == engine = <<>> /\ interaction = <<>>

NewNexus(seeds) ==
    /\ seed \in seeds
    /\ db = EmptyDB
    /\ listeners = <<>>
    /\ mutex = NoThread
    /\ pc = [t \in Threads |-> "idle"]
    /\ idx = [t \in Threads |-> 0]
    /\ arg = [t \in Threads |-> <<>>]
    /\ file = <<>>
    /\ fileChanged = FALSE
    /\ commitCount = 0
    /\ received = <<>>
    /\ last = Step("Init", NoThread, "", <<>>, FALSE, {}, {}, <<>>)

\* the Nexus alone: the supervisor, the rules and the forms are not running
InitWith(seeds) == NewNexus(seeds) /\ NoSlapd /\ NoRules /\ NoSelf

\* a Nexus with or without a seed
Init == InitWith({<<>>, <<TheSeed>>})

\* NewNexus(nil)
InitNoSeed == InitWith({<<>>})

(***************************************************************************)
(* Nexus.AddListener                                                       *)
(***************************************************************************)
\* a thread calls AddListener and reaches n.mutex.Lock()
AddListenerCall(t) ==
    /\ UNCHANGED <<slapdVars, ruleVars, selfVars>>
    /\ pc[t] = "idle"
    /\ Len(listeners) + Cardinality({u \in Threads : pc[u] = "AddListener"}) < MaxListeners
    /\ pc' = [pc EXCEPT ![t] = "AddListener"]
    /\ last' = Step("AddListenerCall", t, "", <<>>, FALSE, {}, {}, <<>>)
    /\ UNCHANGED <<seed, db, listeners, mutex, idx, arg, file, fileChanged,
                   commitCount, received>>

\* the body of AddListener, from Lock to the return or to a call the callback makes
AddListenerEnter(t, cancelled, kind) ==
    /\ UNCHANGED <<slapdVars, ruleVars, selfVars>>
    /\ pc[t] = "AddListener"
    /\ CanLock(t)
    /\ Len(listeners) < MaxListeners
    /\ LET told == TellRightAway(db, Listener(cancelled, kind, FALSE))
           i == Len(listeners) + 1
       IN  /\ listeners' = Append(listeners, Listener(cancelled, kind, told))
           /\ IF told
              THEN /\ received' = Append(received, <<commitCount>>)
                   /\ SaveEffect(kind, Snapshot(db))
                   /\ \E next \in AfterCallback(kind, "idle") :
                          /\ pc' = [pc EXCEPT ![t] = next]
                          /\ mutex' = IF next = "idle" THEN NoThread ELSE t
                          /\ last' = Step("AddListener", t, "", <<>>, next = "idle",
                                          {}, {i}, <<Snapshot(db)>>)
              ELSE /\ received' = Append(received, <<>>)
                   /\ pc' = [pc EXCEPT ![t] = "idle"]
                   /\ mutex' = NoThread
                   /\ last' = Step("AddListener", t, "", <<>>, TRUE, {}, {}, <<>>)
                   /\ UNCHANGED <<file, fileChanged>>
    /\ UNCHANGED <<seed, db, idx, arg, commitCount>>

\* the cancellation token of a listener fires
CancelCtx(i) ==
    /\ UNCHANGED <<slapdVars, ruleVars, selfVars>>
    /\ i \in DOMAIN listeners
    /\ CtxLive(listeners[i])
    /\ listeners' = [listeners EXCEPT ![i].cancelled = TRUE]
    /\ last' = Step("CancelCtx", NoThread, "", <<>>, FALSE, {}, {}, <<>>)
    /\ UNCHANGED <<seed, db, mutex, pc, idx, arg, file, fileChanged, commitCount,
                   received>>

(***************************************************************************)
(* Nexus.Update                                                            *)
(***************************************************************************)
\* a thread calls Update and reaches n.mutex.Lock()
UpdateCall(t) ==
    /\ UNCHANGED <<slapdVars, ruleVars, selfVars>>
    /\ pc[t] = "idle"
    /\ pc' = [pc EXCEPT ![t] = "Update"]
    /\ last' = Step("UpdateCall", t, "", <<>>, FALSE, {}, {}, <<>>)
    /\ UNCHANGED <<seed, db, listeners, mutex, idx, arg, file, fileChanged,
                   commitCount, received>>

\* Update from Lock to its return, or to the start of the fan-out
UpdateBody(t, reducer, optsPtr) ==
    /\ UNCHANGED <<slapdVars, ruleVars, selfVars>>
    /\ pc[t] = "Update"
    /\ CanLock(t)
    /\ LET out == UpdateOutcome(seed, db, reducer, optsPtr)
       IN  /\ out.commit => commitCount < MaxCommits
           /\ db' = out.db
           /\ commitCount' = IF out.commit THEN commitCount + 1 ELSE commitCount
           /\ mutex' = IF out.commit THEN t ELSE NoThread
           /\ pc' = [pc EXCEPT ![t] = IF out.commit THEN "fanout" ELSE "idle"]
           /\ idx' = [idx EXCEPT ![t] = IF out.commit THEN 1 ELSE 0]
           /\ last' = [Step("Update", t, reducer.kind, optsPtr, ~out.commit,
                            out.errs, {}, <<>>) EXCEPT !.seedErrs = out.seedErrs]
    /\ arg' = [arg EXCEPT ![t] = <<>>]
    /\ UNCHANGED <<seed, listeners, file, fileChanged, received>>

\* Update with a reducer and options of the caller's choice
UpdateEnter(t, reducer, optsPtr) ==
    /\ arg[t] = <<>>
    /\ UpdateBody(t, reducer, optsPtr)

\* the fan-out loop of Update reaches a listener whose context is live
FanoutDeliver(t) ==
    /\ UNCHANGED <<slapdVars, ruleVars, selfVars>>
    /\ pc[t] = "fanout"
    /\ idx[t] <= Len(listeners)
    /\ CtxLive(listeners[idx[t]])
    /\ LET kind == listeners[idx[t]].kind
       IN  /\ received' = [received EXCEPT ![idx[t]] = Append(@, commitCount)]
           /\ SaveEffect(kind, Snapshot(db))
           /\ \E next \in AfterCallback(kind, "fanout") :
                  pc' = [pc EXCEPT ![t] = next]
           /\ idx' = [idx EXCEPT ![t] = @ + 1]
           /\ last' = Step("Deliver", t, "", <<>>, FALSE, {}, {idx[t]},
                           <<Snapshot(db)>>)
    /\ UNCHANGED <<seed, db, listeners, mutex, arg, commitCount>>

\* the fan-out loop of Update reaches a listener whose context has expired
FanoutSkip(t) ==
    /\ UNCHANGED <<slapdVars, ruleVars, selfVars>>
    /\ pc[t] = "fanout"
    /\ idx[t] <= Len(listeners)
    /\ ~CtxLive(listeners[idx[t]])
    /\ idx' = [idx EXCEPT ![t] = @ + 1]
    /\ listeners' = [listeners EXCEPT ![idx[t]].skipped = TRUE]
    /\ last' = Step("Skip", t, "", <<>>, FALSE, {}, {}, <<>>)
    /\ UNCHANGED <<seed, db, mutex, pc, arg, file, fileChanged, commitCount,
                   received>>

\* the fan-out loop is over: Update returns nil and the deferred Unlock runs
FanoutDone(t) ==
    /\ UNCHANGED <<slapdVars, ruleVars, selfVars>>
    /\ pc[t] = "fanout"
    /\ idx[t] > Len(listeners)
    /\ mutex' = NoThread
    /\ pc' = [pc EXCEPT ![t] = "idle"]
    /\ idx' = [idx EXCEPT ![t] = 0]
    /\ last' = Step("UpdateReturn", t, "", <<>>, TRUE, ReturnedErrs({}), {}, <<>>)
    /\ UNCHANGED <<seed, db, listeners, arg, file, fileChanged, commitCount,
                   received>>

(***************************************************************************)
(* The inbound side of the file store: a change of the database file is    *)
(* read back and handed to Update.                                         *)
(***************************************************************************)
FileChangeNotify(t) ==
    /\ UNCHANGED <<slapdVars, ruleVars, selfVars>>
    /\ fileChanged
    /\ pc[t] = "idle"
    /\ arg' = [arg EXCEPT ![t] = <<UnmarshalDB(file[1])>>]
    /\ pc' = [pc EXCEPT ![t] = "Update"]
    /\ fileChanged' = FALSE
    /\ last' = Step("FileChangeNotify", t, "", <<>>, FALSE, {}, {}, <<>>)
    /\ UNCHANGED <<seed, db, listeners, mutex, idx, file, commitCount, received>>

ReloadUpdate(t) ==
    /\ arg[t] # <<>>
    /\ UpdateBody(t, LoadReducer(arg[t][1]), <<>>)

(***************************************************************************)
(* Specifications.                                                         *)
(***************************************************************************)
\* one caller, every reducer and option, listeners that keep their snapshots
NextData ==
    \/ UpdateCall(1)
    \/ \E r \in Reducers, o \in OptsPtrs : UpdateEnter(1, r, o)
    \/ FanoutDeliver(1)
    \/ FanoutSkip(1)
    \/ FanoutDone(1)
    \/ AddListenerCall(1)
    \/ AddListenerEnter(1, FALSE, "record")
    \/ \E i \in 1..MaxListeners : CancelCtx(i)

Spec == Init /\ [][NextData]_vars

\* the databases and reducers of the concurrent callers
ConcDatabases == {EmptyDB, MkDB({MkUser("A", "", NoPosix)}, {}, {})}

ConcReducers ==
    {[kind |-> "identity", value |-> EmptyDB], [kind |-> "error", value |-> EmptyDB]}
        \cup {[kind |-> "mutate", value |-> d] : d \in ConcDatabases}

\* several threads call Update and AddListener; callbacks may call back into the Nexus
NextConc ==
    \/ \E t \in Threads : UpdateCall(t)
    \/ \E t \in Threads, r \in ConcReducers : UpdateEnter(t, r, <<>>)
    \/ \E t \in Threads : FanoutDeliver(t)
    \/ \E t \in Threads : FanoutSkip(t)
    \/ \E t \in Threads : FanoutDone(t)
    \/ \E t \in Threads : AddListenerCall(t)
    \/ \E t \in Threads, c \in BOOLEAN,
          k \in {"record", "reenters"} :
            AddListenerEnter(t, c, k)
    \/ \E i \in 1..MaxListeners : CancelCtx(i)

SpecConc == InitNoSeed /\ [][NextConc]_vars

\* the threads of the file store scenario: a caller of Update and the file store's
\* event loop
Caller == 1
FileStoreLoop == 2

\* the Nexus with the outbound listener (Nexus -> FileStore.Save) and the inbound
\* subscription (file change -> FileStore.Load -> Nexus.Update)
NextStore ==
    \/ UpdateCall(Caller)
    \/ \E r \in ReducersOver(StoreDatabases) : UpdateEnter(Caller, r, <<>>)
    \/ \E t \in {Caller, FileStoreLoop} : FanoutDeliver(t)
    \/ \E t \in {Caller, FileStoreLoop} : FanoutDone(t)
    \/ AddListenerCall(Caller)
    \/ AddListenerEnter(Caller, FALSE, "save")
    \/ FileChangeNotify(FileStoreLoop)
    \/ ReloadUpdate(FileStoreLoop)

SpecStore == Init /\ [][NextStore]_vars

(***************************************************************************)
(* Properties of Update as a single caller sees it.                        *)
(***************************************************************************)
LiveListeners == {i \in DOMAIN listeners : CtxLive(listeners[i])}

\* the step just taken was the body of an Update call
UpdateRan == last'.op = "Update"

\* the step left the database, the commit count, the file and every listener's
\* callbacks as they were, and the call has returned
NothingPublished ==
    /\ db' = db
    /\ commitCount' = commitCount
    /\ received' = received
    /\ file' = file
    /\ last'.called = {}
    /\ last'.returned

SeedConflictIsReturned ==
    [][(UpdateRan /\ last'.seedErrs # {})
          => (last'.errs = last'.seedErrs /\ NothingPublished)]_vars

\* the pinned fields of every seeded entity have their seed values in d
AgreesWithSeed(d) == seed = <<>> \/ CheckConflicts(seed[1], d) = {}

\* C3: with a seed, every database committed as current and every snapshot handed to
\* a listener has each seeded entity with each seeded field at its seed value.
CommittedAgreesWithSeed ==
    /\ commitCount > 0 => AgreesWithSeed(db)
    /\ last.snapshot # <<>> => AgreesWithSeed(last.snapshot[1])

\* C5, as stated: an Update whose reducer returns its input unchanged notifies no
\* listener and leaves the current database as it was, in every state.
IdentityUpdateIsSilent ==
    [][(UpdateRan /\ last'.reducer = "identity") => NothingPublished]_vars

\* C5, amended: the same, when no seed is configured, or ConflictWithSeedIsError is
\* true, or the current database already agrees with the seed.
IdentityUpdateIsSilentUnlessSeedApplies ==
    [][(/\ UpdateRan
        /\ last'.reducer = "identity"
        /\ \/ OptsOf(last'.optsPtr).ConflictWithSeedIsError
           \/ AgreesWithSeed(db))
          => NothingPublished]_vars

\* an identity Update with silent seed enforcement on a populated, seeded database
\* with a live listener
IdentityUpdateWitness ==
    /\ last.op = "Update"
    /\ last.reducer = "identity"
    /\ last.optsPtr = <<>>
    /\ seed # <<>>
    /\ ~IsEmpty(db)
    /\ LiveListeners # {}

\* every posix gid of a user of d is the posix_gid of some group of d
PosixGidsReferToGroups(d) ==
    \A l \in DOMAIN d.users :
        (d.users[l].posix.set /\ d.users[l].posix.gid # -1)
            => \E g \in DOMAIN d.groups : d.groups[g].posix_gid = d.users[l].posix.gid

\* C9: in every database the Nexus has committed each user's posix gid is the
\* posix_gid of some group.
CommittedPosixGidsValid == commitCount > 0 => PosixGidsReferToGroups(db)

(***************************************************************************)
(* Properties of the listeners under concurrent callers.                   *)
(***************************************************************************)
\* s is a strictly increasing sequence of commit numbers that have happened
IsCommitSubsequence(s) ==
    /\ \A k \in DOMAIN s : s[k] \in 1..commitCount
    /\ \A k \in DOMAIN s : k > 1 => s[k - 1] < s[k]

\* each callback invoked by the step was handed the current database under the
\* number of its commit
HandsOverCurrentCommit ==
    /\ last'.snapshot # <<>> => last'.snapshot = <<db'>>
    /\ \A i \in last'.called :
           /\ i \in DOMAIN received'
           /\ received'[i] =
                  Append(IF i \in DOMAIN received THEN received[i] ELSE <<>>,
                         commitCount')

\* the current database changes only by a commit, which takes the next number
ChangesAreCommits ==
    /\ db' # db => commitCount' = commitCount + 1
    /\ commitCount' # commitCount => last'.op = "Update" /\ ~last'.returned

\* a callback runs only in a step that hands it a commit
CallbacksAreRecorded ==
    \A i \in DOMAIN received' :
        received'[i] # (IF i \in DOMAIN received THEN received[i] ELSE <<>>)
            => i \in last'.called

\* C4: under every interleaving of Update and AddListener calls, what a listener's
\* callback receives is a subsequence, in commit order and without repeats, of the
\* databases the Nexus committed, and nothing that was never committed.
ListenersSeeCommitOrder ==
    /\ [](\A i \in DOMAIN received : IsCommitSubsequence(received[i]))
    /\ [][HandsOverCurrentCommit /\ ChangesAreCommits /\ CallbacksAreRecorded]_vars

\* a listener has received two commits while one thread was inside the fan-out and
\* another one was waiting for the mutex
ConcurrentDeliveryWitness ==
    /\ \E i \in DOMAIN received : Len(received[i]) >= 2
    /\ \E t, u \in Threads : pc[t] = "fanout" /\ pc[u] \in {"Update", "AddListener"}

\* the listener the step registered
Registered == Len(listeners')

\* C7, as stated: a listener registered when some database has been committed gets
\* exactly one immediate callback with a clone of the current database; one
\* registered while the database is empty gets none.
RegistrationAfterCommitTellsAtOnce ==
    [][last'.op = "AddListener"
          => /\ commitCount > 0
                  => /\ last'.called = {Registered}
                     /\ last'.snapshot = <<db>>
                     /\ received'[Registered] = <<commitCount>>
             /\ IsEmpty(db) => last'.called = {}]_vars

\* an Update that has returned after a commit has handed that commit to every
\* listener whose token has not fired
FanoutReachesLiveListeners ==
    last'.op = "UpdateReturn"
        => \A i \in LiveListeners :
               Len(received[i]) > 0 /\ received[i][Len(received[i])] = commitCount

\* C7, amended: a listener registered while the current database is not empty and
\* its token has not fired gets exactly one immediate callback with a clone of the
\* current database before AddListener returns, any other listener gets none;
\* afterwards it gets one callback for every commit whose Update returns while its
\* token has not fired.
RegistrationTellsCurrentDatabase ==
    /\ [](\A i \in DOMAIN received : IsCommitSubsequence(received[i]))
    /\ [][/\ last'.op = "AddListener"
              => IF ~IsEmpty(db) /\ CtxLive(listeners'[Registered])
                 THEN /\ last'.called = {Registered}
                      /\ last'.snapshot = <<db>>
                      /\ received'[Registered] = <<commitCount>>
                 ELSE /\ last'.called = {}
                      /\ received'[Registered] = <<>>
          /\ FanoutReachesLiveListeners]_vars

\* a listener registered after a commit was told at once and then received a later
\* commit from an Update that has returned
LateListenerWitness ==
    /\ last.op = "UpdateReturn"
    /\ \E i \in DOMAIN listeners :
           /\ listeners[i].told
           /\ Len(received[i]) >= 2

\* C8: once its token has fired a listener's callback is not invoked any more, and
\* when the Update whose fan-out found the token fired has returned the listener
\* has no entry in the listener list.
FiredListenerIsRemoved ==
    /\ [](mutex = NoThread => \A i \in DOMAIN listeners : ~listeners[i].skipped)
    /\ [][\A i \in last'.called : CtxLive(listeners'[i])]_vars

\* thread t waits in Lock for the mutex it holds itself
SelfDeadlocked(t) == mutex = t /\ pc[t] \in {"Update", "AddListener"}

\* the same, of the state the step leads to
SelfDeadlockedNext(t) == mutex' = t /\ pc'[t] \in {"Update", "AddListener"}

Waiting(t) == pc[t] \in {"Update", "AddListener"}

\* C10: callbacks run while the updating thread holds the mutex; a callback that
\* calls Update or AddListener never returns, and from then on that thread and every
\* thread that calls Update or AddListener stays blocked.
ReentrantCallbackDeadlocks ==
    [][/\ last'.op = "Deliver" => (mutex = last'.t /\ mutex' = last'.t)
       /\ (last'.called # {} /\ \E i \in last'.called :
               listeners'[i].kind = "reenters")
             => SelfDeadlockedNext(last'.t)
       /\ \A t \in Threads :
              SelfDeadlocked(t)
                  => /\ SelfDeadlockedNext(t)
                     /\ \A u \in Threads : Waiting(u) => pc'[u] = pc[u]
                     /\ \A u \in Threads : pc'[u] = "idle" => pc[u] = "idle"]_vars

\* a thread is blocked inside its own callback and another thread waits for the mutex
DeadlockWitness ==
    \E t, u \in Threads : t # u /\ SelfDeadlocked(t) /\ Waiting(u)

(***************************************************************************)
(* The file store round trip.                                              *)
(***************************************************************************)
\* the file holds what the current commit saved, and thread t has read it back
ReloadedCurrentCommit(t) ==
    /\ file = <<MarshalDB(db)>>
    /\ arg[t] = <<UnmarshalDB(file[1])>>

\* C6: the Update that hands back the database read from the file which the
\* previous commit saved leaves the Nexus state as it was and notifies no listener,
\* so that no further Save follows.
ReloadConvergesInOneRoundTrip ==
    [][(UpdateRan /\ last'.reducer = "load" /\ ReloadedCurrentCommit(last'.t))
          => NothingPublished]_vars

(***************************************************************************)
(* The slapd supervisor.  Text is a sequence of tokens: a word is a        *)
(* maximal run of \w characters, Percent and Newline are the characters    *)
(* the two regular expressions of renderSlapdConfig look for, and any      *)
(* other token holds a character outside \w and neither "%" nor a line     *)
(* break.                                                                  *)
(***************************************************************************)
MaxRequests == 2
MaxExitStatus == 2

W(s) == [class |-> "word", s |-> s]
L(s) == [class |-> "other", s |-> s]
Percent == [class |-> "percent", s |-> "%"]
Newline == [class |-> "newline", s |-> "\n"]

Placeholder(name) == <<Percent, W(name), Percent>>

\* the words of the model that begin with "TLS"
TLSWords ==
    {"TLSCACertificateFile", "TLSCertificateFile", "TLSCertificateKeyFile",
     "TLSProtocolMin", "TLSVerifyClient"}

\* the four TLS directives of the template
TLSDirectives ==
    {"TLSCACertificateFile", "TLSCertificateFile", "TLSCertificateKeyFile",
     "TLSProtocolMin"}

\* the template: its first include, the access rule of the service user, the TLS block
\* and the database block down to rootpw
configTemplate ==
    <<Newline,
      W("include"), L(" ")>> \o Placeholder("PORTUNUS_SLAPD_SCHEMA_DIR")
        \o <<L("/core.schema"), Newline,
      Newline,
      L("\tby dn.base=\"cn=portunus,")>> \o Placeholder("PORTUNUS_LDAP_SUFFIX")
        \o <<L("\" write"), Newline,
      Newline,
      W("TLSCACertificateFile"), L("  \"")>> \o Placeholder("PORTUNUS_SLAPD_STATE_DIR")
        \o <<L("/ca.pem\""), Newline,
      W("TLSCertificateFile"), L("    \"")>> \o Placeholder("PORTUNUS_SLAPD_STATE_DIR")
        \o <<L("/cert.pem\""), Newline,
      W("TLSCertificateKeyFile"), L(" \"")>> \o Placeholder("PORTUNUS_SLAPD_STATE_DIR")
        \o <<L("/key.pem\""), Newline,
      W("TLSProtocolMin"), L(" 3.3"), Newline,
      Newline,
      W("suffix"), L("     \"")>> \o Placeholder("PORTUNUS_LDAP_SUFFIX")
        \o <<L("\""), Newline,
      W("rootpw"), L("     \"")>> \o Placeholder("PORTUNUS_LDAP_PASSWORD_HASH")
        \o <<L("\""), Newline>>

\* environment[key]: the zero value "" for a key the map does not hold
Lookup(env, key) == IF key \in DOMAIN env THEN env[key] ELSE <<>>

\* the map with key set to value
WithKey(env, key, value) ==
    [k \in DOMAIN env \cup {key} |-> IF k = key THEN value ELSE env[k]]

IsTLSWord(tok) == tok.class = "word" /\ tok.s \in TLSWords

\* what is left of a line from its first line break on
RECURSIVE RestOfLine(_)
RestOfLine(toks) ==
    IF toks = <<>> \/ Head(toks) = Newline THEN toks ELSE RestOfLine(Tail(toks))

\* regexp (?m)^TLS.*$ replaced by "": bol says that toks starts a line
RECURSIVE StripTLSLines(_, _)
StripTLSLines(toks, bol) ==
    IF toks = <<>> THEN <<>>
    ELSE IF bol /\ IsTLSWord(Head(toks)) THEN StripTLSLines(RestOfLine(toks), FALSE)
    ELSE <<Head(toks)>> \o StripTLSLines(Tail(toks), Head(toks) = Newline)

\* regexp %\w+% replaced by environment[name], the replacement is not scanned again
RECURSIVE ReplacePlaceholders(_, _)
ReplacePlaceholders(toks, env) ==
    IF toks = <<>> THEN <<>>
    ELSE IF /\ Len(toks) >= 3
            /\ toks[1] = Percent
            /\ toks[2].class = "word"
            /\ toks[3] = Percent
    THEN Lookup(env, toks[2].s) \o ReplacePlaceholders(SubSeq(toks, 4, Len(toks)), env)
    ELSE <<Head(toks)>> \o ReplacePlaceholders(Tail(toks), env)

\* hasher.HashPassword: a scheme prefix and a digest of the password
HashPassword(password) == <<L("{CRYPT}$")>> \o password

\* generateServiceUserPassword: hex digits of random bytes
ServicePasswords == {<<W("00ff")>>, <<W("c0de")>>}

TLSCertificate(env) == Lookup(env, "PORTUNUS_SLAPD_TLS_CERTIFICATE")

\* the environment renderSlapdConfig leaves behind and the config it returns
renderSlapdConfig(env, password) ==
    LET env2 == WithKey(WithKey(env, "PORTUNUS_LDAP_PASSWORD", password),
                        "PORTUNUS_LDAP_PASSWORD_HASH", HashPassword(password))
        config == IF TLSCertificate(env2) = <<>>
                  THEN StripTLSLines(configTemplate, TRUE)
                  ELSE configTemplate
    IN  [environment |-> env2, config |-> ReplacePlaceholders(config, env2)]

BindURLPlain(env) == "ldap:///"

\* bindURL of runLDAPServer
BindURL(env) == IF TLSCertificate(env) # <<>> THEN "ldaps:///" ELSE "ldap:///"

\* the values PORTUNUS_LDAP_SUFFIX takes: a plain suffix, one holding "%X%", and one
\* holding a line break followed by a TLS directive
Suffixes ==
    {<<L("dc=example")>>,
     <<L("dc=")>> \o Placeholder("X"),
     <<L("dc=example"), Newline, W("TLSVerifyClient"), L(" never")>>}

\* the maps the supervisor is started with: TLS certificate empty or set, each suffix,
\* the schema directory set or missing
Environments ==
    {MapOf({<<"PORTUNUS_SLAPD_TLS_CERTIFICATE", cert>>,
            <<"PORTUNUS_LDAP_SUFFIX", suffix>>,
            <<"PORTUNUS_SLAPD_STATE_DIR", <<L("/state")>>>>} \cup schema) :
        cert \in {<<>>, <<L("/cert.pem")>>},
        suffix \in Suffixes,
        schema \in {{}, {<<"PORTUNUS_SLAPD_SCHEMA_DIR", <<L("/schema")>>>>}}}

ExitStatuses == 0..MaxExitStatus

\* the error of cmd.Run(): nil only for a child that started and exited with status 0
CmdRunErr(c) == c.state = "failed" \/ c.status # <<0>>

\* the process runs
Alive == exitCode = <<>>

InitSlapd ==
    /\ NewNexus({<<>>}) /\ NoRules /\ NoSelf
    /\ environment \in Environments
    /\ slapdConf = <<>>
    /\ cmd = <<>>
    /\ supervisor = "start"
    /\ exitCode = <<>>
    /\ served = 0

\* the configuration is rendered with a fresh service password
RenderSlapdConfig(password) ==
    /\ Alive
    /\ supervisor = "start"
    /\ LET r == renderSlapdConfig(environment, password)
       IN  /\ environment' = r.environment
           /\ slapdConf' = <<r.config>>
    /\ supervisor' = "rendered"
    /\ UNCHANGED <<cmd, exitCode, served, nexusVars, ruleVars, selfVars>>

\* runLDAPServer up to cmd.Run(): the child starts, or fails to start
StartSlapd(started) ==
    /\ Alive
    /\ supervisor = "rendered"
    /\ cmd' = <<[bindURL |-> BindURL(environment),
                 state |-> IF started THEN "running" ELSE "failed",
                 status |-> <<>>]>>
    /\ supervisor' = "waiting"
    /\ UNCHANGED <<environment, slapdConf, exitCode, served, nexusVars, ruleVars,
                   selfVars>>

\* the slapd child exits
SlapdExits(status) ==
    /\ Alive
    /\ cmd # <<>>
    /\ cmd[1].state = "running"
    /\ cmd' = <<[cmd[1] EXCEPT !.state = "exited", !.status = <<status>>]>>
    /\ UNCHANGED <<environment, slapdConf, supervisor, exitCode, served, nexusVars,
                   ruleVars, selfVars>>

\* cmd.Run() returns: os.Exit(1) on an error, else runLDAPServer returns
RunReturns ==
    /\ Alive
    /\ supervisor = "waiting"
    /\ cmd[1].state \in {"exited", "failed"}
    /\ IF CmdRunErr(cmd[1])
       THEN exitCode' = <<1>> /\ supervisor' = "exited"
       ELSE exitCode' = exitCode /\ supervisor' = "returned"
    /\ UNCHANGED <<environment, slapdConf, cmd, served, nexusVars, ruleVars, selfVars>>

\* the process serves a HTTP request
ServeRequest ==
    /\ Alive
    /\ served < MaxRequests
    /\ served' = served + 1
    /\ UNCHANGED <<environment, slapdConf, cmd, supervisor, exitCode, nexusVars,
                   ruleVars, selfVars>>

\* http.ListenAndServe returns an error and logg.Fatal ends the process
ListenFails ==
    /\ Alive
    /\ exitCode' = <<1>>
    /\ UNCHANGED <<environment, slapdConf, cmd, supervisor, served, nexusVars,
                   ruleVars, selfVars>>

NextSlapd ==
    \/ \E password \in ServicePasswords : RenderSlapdConfig(password)
    \/ \E started \in BOOLEAN : StartSlapd(started)
    \/ \E status \in ExitStatuses : SlapdExits(status)
    \/ RunReturns
    \/ ServeRequest
    \/ ListenFails

SpecSlapd == InitSlapd /\ [][NextSlapd]_vars

(***************************************************************************)
(* Properties of the slapd supervisor.                                     *)
(***************************************************************************)
\* C11: once the slapd child has exited, with whatever status, and runLDAPServer is
\* past cmd.Run(), the Portunus process has terminated with a nonzero exit code
SlapdExitStopsProcess ==
    (cmd # <<>> /\ cmd[1].state = "exited" /\ supervisor # "waiting")
        => (exitCode # <<>> /\ exitCode[1] # 0)

\* text that matches %\w+%
HasPlaceholder(toks) ==
    \E i, j \in DOMAIN toks :
        /\ i + 1 < j
        /\ toks[i] = Percent
        /\ toks[j] = Percent
        /\ \A k \in (i + 1)..(j - 1) : toks[k].class = "word"

LineStarts(toks) == {i \in DOMAIN toks : i = 1 \/ toks[i - 1] = Newline}

\* a line that starts with "TLS"
HasTLSLine(toks) == \E i \in LineStarts(toks) : IsTLSWord(toks[i])

\* a line that starts with the given directive
HasLine(toks, directive) == \E i \in LineStarts(toks) : toks[i] = W(directive)

TLSOff == TLSCertificate(environment) = <<>>

\* the rendered configuration has the TLS lines the certificate setting asks for and
\* no placeholder
RenderedAsConfigured ==
    slapdConf # <<>> =>
        /\ IF TLSOff
           THEN ~HasTLSLine(slapdConf[1])
           ELSE \A d \in TLSDirectives : HasLine(slapdConf[1], d)
        /\ ~HasPlaceholder(slapdConf[1])

\* slapd listens on the URL the certificate setting asks for
StartedAsConfigured ==
    cmd # <<>> => cmd[1].bindURL = IF TLSOff THEN "ldap:///" ELSE "ldaps:///"

\* with a certificate configured the four TLS lines are in the rendered configuration
TLSLinesKept ==
    (slapdConf # <<>> /\ ~TLSOff) => \A d \in TLSDirectives : HasLine(slapdConf[1], d)

\* a value that brings neither text of the form %NAME% nor a line starting with "TLS"
CleanValue(v) ==
    /\ ~HasPlaceholder(v)
    /\ \A i \in DOMAIN v : (v[i] = Newline /\ i < Len(v)) => ~IsTLSWord(v[i + 1])

CleanEnvironment == \A key \in DOMAIN environment : CleanValue(environment[key])

\* C14 as stated: whatever the environment holds, an empty
\* PORTUNUS_SLAPD_TLS_CERTIFICATE gives a configuration without a line starting with
\* "TLS" and slapd on ldap:///, a non-empty one gives all four TLS lines and slapd on
\* ldaps:///, and no %NAME% placeholder remains in the rendered configuration
TLSFollowsCertificate == RenderedAsConfigured /\ StartedAsConfigured

\* C14: slapd listens on ldap:/// without and on ldaps:/// with a certificate, the four
\* TLS lines are rendered with a certificate, and, provided that no value of the
\* environment itself holds text of the form %NAME% or a line break followed by "TLS",
\* no line starting with "TLS" is rendered without a certificate and no %NAME%
\* placeholder remains
TLSFollowsCertificateForCleanValues ==
    /\ CleanEnvironment => RenderedAsConfigured
    /\ TLSLinesKept
    /\ StartedAsConfigured

\* the TLS lines were stripped from a configuration rendered from clean values, and
\* slapd was started
StrippedConfigWitness ==
    /\ slapdConf # <<>>
    /\ cmd # <<>>
    /\ TLSOff
    /\ CleanEnvironment
    /\ Len(slapdConf[1]) < Len(configTemplate)

(***************************************************************************)
(* GroupMemberNames.MarshalJSON and UnmarshalJSON on their own: two maps   *)
(* are serialized, the first one is read back and serialized again.        *)
(***************************************************************************)
\* every GroupMemberNames over the names of the model, entries with value false included
MemberMaps ==
    UNION {[names -> BOOLEAN] : names \in SUBSET Range(NameOrder)}

InitMembers ==
    /\ NewNexus({<<>>}) /\ NoSlapd /\ NoSelf
    /\ uidCheck = <<>>
    /\ \E m \in MemberMaps, n \in MemberMaps :
           members = [stage |-> "input", m |-> m, n |-> n, bytesM |-> <<>>,
                      bytesN |-> <<>>, back |-> <<>>, again |-> <<>>]

\* json.Marshal of both maps
MarshalMembers ==
    /\ members # <<>>
    /\ members.stage = "input"
    /\ members' = [members EXCEPT !.stage = "marshalled",
                                  !.bytesM = MarshalJSON(members.m),
                                  !.bytesN = MarshalJSON(members.n)]
    /\ UNCHANGED <<uidCheck, nexusVars, slapdVars, selfVars>>

\* json.Unmarshal of the bytes of the first map
UnmarshalMembers ==
    /\ members # <<>>
    /\ members.stage = "marshalled"
    /\ members' = [members EXCEPT !.stage = "unmarshalled",
                                  !.back = UnmarshalJSON(members.bytesM)]
    /\ UNCHANGED <<uidCheck, nexusVars, slapdVars, selfVars>>

\* json.Marshal of the map read back
RemarshalMembers ==
    /\ members # <<>>
    /\ members.stage = "unmarshalled"
    /\ members' = [members EXCEPT !.stage = "remarshalled",
                                  !.again = MarshalJSON(members.back)]
    /\ UNCHANGED <<uidCheck, nexusVars, slapdVars, selfVars>>

NextMembers ==
    \/ MarshalMembers
    \/ UnmarshalMembers
    \/ RemarshalMembers

SpecMembers == InitMembers /\ [][NextMembers]_vars

\* the names a GroupMemberNames maps to true
TrueMembers(g) == {name \in DOMAIN g : g[name]}

\* the place of a name in ascending order
Rank(name) == CHOOSE i \in DOMAIN NameOrder : NameOrder[i] = name

\* sorted ascending without duplicates
StrictlyAscending(names) ==
    \A i, j \in DOMAIN names : i < j => Rank(names[i]) < Rank(names[j])

\* C12: MarshalJSON emits exactly the names mapped to true, sorted ascending without
\* duplicates; UnmarshalJSON of these bytes is the set of true members; serializing
\* that again yields the same bytes; two maps with the same true members serialize
\* identically
MemberSerializationIsCanonical ==
    members # <<>> =>
        /\ members.stage # "input" =>
              /\ Range(members.bytesM) = TrueMembers(members.m)
              /\ StrictlyAscending(members.bytesM)
              /\ TrueMembers(members.m) = TrueMembers(members.n)
                    => members.bytesM = members.bytesN
        /\ members.stage \in {"unmarshalled", "remarshalled"} =>
              members.back = [name \in TrueMembers(members.m) |-> TRUE]
        /\ members.stage = "remarshalled" => members.again = members.bytesM

\* a map with a true and a false entry went through the round trip, next to a
\* different map with the same true members
FalseEntryRoundTripWitness ==
    /\ members # <<>>
    /\ members.stage = "remarshalled"
    /\ \E a, b \in DOMAIN members.m : members.m[a] /\ ~members.m[b]
    /\ members.n # members.m
    /\ TrueMembers(members.n) = TrueMembers(members.m)
    /\ members.back # members.m

(***************************************************************************)
(* The validation rule MustBePosixUIDorGID.  A string is the sequence of   *)
(* its characters.                                                         *)
(***************************************************************************)
MaxDigits == 5
Base == 10
BitSize == 16

\* the characters of the model: digits, signs and a letter
Alphabet == {"0", "3", "5", "6", "+", "-", "a"}

\* the strings a form field may hold
FormValues == UNION {[1..n -> Alphabet] : n \in 0..MaxDigits}

\* the digit value strconv gives a character: 0..9 for a decimal digit, 10.. for a
\* letter, <<>> for any other character
DigitOf(c) ==
    CASE c = "0" -> <<0>>
      [] c = "3" -> <<3>>
      [] c = "5" -> <<5>>
      [] c = "6" -> <<6>>
      [] c = "a" -> <<10>>
      [] OTHER -> <<>>

\* maxVal of strconv.ParseUint
MaxVal == 2 ^ BitSize - 1

\* the loop of strconv.ParseUint over the characters of s, n is the value so far.  For
\* a bitSize of 16 n never exceeds maxVal, so the guards against overflow of uint64
\* (n >= cutoff, n1 < n) cannot fire
RECURSIVE ParseDigits(_, _)
ParseDigits(s, n) ==
    IF s = <<>> THEN [n |-> n, err |-> NoErr]
    ELSE LET d == DigitOf(Head(s))
         IN  IF d = <<>> \/ d[1] >= Base THEN [n |-> 0, err |-> "invalid syntax"]
             ELSE LET n1 == n * Base + d[1]
                  IN  IF n1 > MaxVal THEN [n |-> MaxVal, err |-> "value out of range"]
                      ELSE ParseDigits(Tail(s), n1)

\* strconv.ParseUint(s, 10, 16)
ParseUint(s) ==
    IF s = <<>> THEN [n |-> 0, err |-> "invalid syntax"] ELSE ParseDigits(s, 0)

errNotPosixUIDorGID == "is not a number between 0 and 65535 inclusive"

MustBePosixUIDorGIDOfAnyValue(val) ==
    IF ParseUint(val).err # NoErr THEN errNotPosixUIDorGID ELSE NoErr

MustBePosixUIDorGID(val) ==
    IF val # <<>>
    THEN IF ParseUint(val).err # NoErr THEN errNotPosixUIDorGID ELSE NoErr
    ELSE NoErr

InitUID ==
    /\ NewNexus({<<>>}) /\ NoSlapd /\ NoSelf
    /\ members = <<>>
    /\ \E val \in FormValues : uidCheck = [val |-> val, called |-> FALSE, err |-> NoErr]

\* the rule is applied to the value of the field
CheckUID ==
    /\ uidCheck # <<>>
    /\ ~uidCheck.called
    /\ uidCheck' = [uidCheck EXCEPT !.called = TRUE,
                                    !.err = MustBePosixUIDorGID(uidCheck.val)]
    /\ UNCHANGED <<members, nexusVars, slapdVars, selfVars>>

NextUID == CheckUID

SpecUID == InitUID /\ [][NextUID]_vars

DecimalDigits == {"0", "1", "2", "3", "4", "5", "6", "7", "8", "9"}

\* a non-empty string of decimal digits
IsDecimal(val) == val # <<>> /\ \A i \in DOMAIN val : val[i] \in DecimalDigits

\* the integer a string of decimal digits denotes
RECURSIVE DecimalValue(_)
DecimalValue(val) ==
    IF val = <<>> THEN 0
    ELSE DecimalValue(SubSeq(val, 1, Len(val) - 1)) * 10 + DigitOf(val[Len(val)])[1]

\* C13: MustBePosixUIDorGID returns no error exactly for the empty string and for the
\* strings of decimal digits (leading zeros allowed) that denote an integer between 0
\* and 65535 inclusive; for every other string it returns errNotPosixUIDorGID
PosixUIDorGIDRange ==
    (uidCheck # <<>> /\ uidCheck.called) =>
        /\ uidCheck.err \in {NoErr, errNotPosixUIDorGID}
        /\ uidCheck.err = NoErr <=>
              \/ uidCheck.val = <<>>
              \/ IsDecimal(uidCheck.val) /\ DecimalValue(uidCheck.val) <= 65535

\* the largest value, 65535, was checked and accepted
LargestUIDWitness ==
    /\ uidCheck # <<>>
    /\ uidCheck.called
    /\ uidCheck.val = <<"6", "5", "5", "3", "5">>
    /\ uidCheck.err = NoErr

(***************************************************************************)
(* The self-service form: one POST /self request of the user WhoAmI, next  *)
(* to other requests that change the same user.                            *)
(***************************************************************************)
WhoAmI == "bob"

\* the zero value of core.User, and a user of the model
CoreUser(login, given, hash) ==
    [LoginName |-> login, GivenName |-> given, PasswordHash |-> hash]

NoHash == [salt |-> "", digest |-> <<>>]

ZeroCoreUser == CoreUser("", "", NoHash)

Salts == {"s1", "s2"}

\* core.HashPasswordForLDAP: a digest of a fresh salt and the password
HashPasswordForLDAP(password, salt) == [salt |-> salt, digest |-> <<salt>> \o password]

\* core.CheckPasswordHash: the digest of the hash's salt and the password is the hash's
CheckPasswordHash(password, hash) ==
    hash.salt \in Salts /\ hash = HashPasswordForLDAP(password, hash.salt)

\* what a password field of the request may hold: nothing, a space, two passwords, and
\* a password with a space after it
PasswordInputs == {<<>>, <<" ">>, <<"a">>, <<"b">>, <<"a", " ">>}

\* strings.TrimSpace
RECURSIVE TrimLeft(_)
TrimLeft(s) == IF s # <<>> /\ Head(s) = " " THEN TrimLeft(Tail(s)) ELSE s

RECURSIVE TrimRight(_)
TrimRight(s) ==
    IF s # <<>> /\ s[Len(s)] = " " THEN TrimRight(SubSeq(s, 1, Len(s) - 1)) ELSE s

TrimSpace(s) == TrimRight(TrimLeft(s))

errIsMissing == "is missing"

MustNotBeEmpty(val) == IF TrimSpace(val) = <<>> THEN errIsMissing ELSE NoErr

PasswordFields == {"old_password", "new_password", "repeat_password"}

FieldState(value, errorMessage, selected) ==
    [Value |-> value, ErrorMessage |-> errorMessage, Selected |-> selected]

\* i.FormState as useSelfServiceForm leaves it: only the field "memberships"
FormStateOfSpec == MapOf({<<"memberships", FieldState(<<>>, NoErr, {"admins"})>>})

\* SelectFieldSpec.ReadState: a read-only field is left as it is
SelectReadState(readOnly, options, posted, formState) ==
    IF readOnly THEN formState
    ELSE [f \in DOMAIN formState \cup {"memberships"} |->
            IF f = "memberships"
            THEN FieldState(<<>>,
                            IF posted \subseteq options THEN NoErr
                            ELSE "does not have the option",
                            posted)
            ELSE formState[f]]

\* InputFieldSpec.ReadState with the rule MustNotBeEmpty, for the three password fields
InputReadState(posted, formState) ==
    [f \in DOMAIN formState \cup PasswordFields |->
        IF f \in PasswordFields
        THEN FieldState(posted[f], MustNotBeEmpty(posted[f]), {})
        ELSE formState[f]]

\* FormState.IsValid: no field has an error message
IsValid(fs) == \A f \in DOMAIN fs : fs[f].ErrorMessage = NoErr

validateSelfServiceFormTrustingOldPassword(fs, currentUser) ==
    IF IsValid(fs) /\ fs["new_password"].Value # fs["repeat_password"].Value
    THEN [fs EXCEPT !["repeat_password"].ErrorMessage = "did not match"]
    ELSE fs

\* validateSelfServiceForm: the FormState it leaves
validateSelfServiceForm(fs, currentUser) ==
    LET fs1 == IF IsValid(fs) /\ fs["new_password"].Value # fs["repeat_password"].Value
               THEN [fs EXCEPT !["repeat_password"].ErrorMessage = "did not match"]
               ELSE fs
    IN  IF /\ IsValid(fs1)
           /\ ~CheckPasswordHash(fs1["old_password"].Value, currentUser.PasswordHash)
        THEN [fs1 EXCEPT !["old_password"].ErrorMessage = "is not correct"]
        ELSE fs1

\* the reducer executeSelfServiceForm hands to ChangeUser: <<>> for nil
SelfServiceReducer(u, newPasswordHash) ==
    IF u.LoginName = ""
    THEN [user |-> <<>>, err |-> "no such user"]
    ELSE [user |-> <<[u EXCEPT !.PasswordHash = newPasswordHash]>>, err |-> NoErr]

\* Engine.ChangeUser(login, f): f gets the record of login, or the zero User; an error
\* aborts, nil deletes, a record replaces
ChangeUser(users, login, result) ==
    IF result.err # NoErr THEN users
    ELSE IF result.user = <<>> THEN [l \in DOMAIN users \ {login} |-> users[l]]
    ELSE [l \in DOMAIN users \cup {login} |-> IF l = login THEN result.user[1] ELSE users[l]]

FindUser(users, login) == IF login \in DOMAIN users THEN users[login] ELSE ZeroCoreUser

\* the engine holds WhoAmI with the password "a"; the request has been routed to
\* postSelfHandler
InitSelf ==
    /\ NewNexus({<<>>}) /\ NoSlapd /\ NoRules
    /\ engine = MapOf({<<WhoAmI,
                         CoreUser(WhoAmI, "Bob", HashPasswordForLDAP(<<"a">>, "s1"))>>})
    /\ interaction = [pc |-> "VerifyLogin", CurrentUser |-> ZeroCoreUser,
                      FormState |-> <<>>, flash |-> <<>>, calls |-> 0]

\* LoadSession, VerifyLogin: the session's user is looked up; without one the request
\* is redirected and the pipeline ends
VerifyLogin ==
    /\ interaction # <<>>
    /\ interaction.pc = "VerifyLogin"
    /\ interaction' =
          IF WhoAmI \in DOMAIN engine
          THEN [interaction EXCEPT !.pc = "useSelfServiceForm",
                                   !.CurrentUser = engine[WhoAmI]]
          ELSE [interaction EXCEPT !.pc = "done"]
    /\ UNCHANGED <<engine, nexusVars, slapdVars, ruleVars>>

UseSelfServiceForm ==
    /\ interaction # <<>>
    /\ interaction.pc = "useSelfServiceForm"
    /\ interaction' = [interaction EXCEPT !.pc = "ReadFormStateFromRequest",
                                          !.FormState = FormStateOfSpec]
    /\ UNCHANGED <<engine, nexusVars, slapdVars, ruleVars>>

\* ReadFormStateFromRequest: every field of the FormSpec reads its state
ReadFormStateFromRequest(posted, postedMemberships) ==
    /\ interaction # <<>>
    /\ interaction.pc = "ReadFormStateFromRequest"
    /\ interaction' =
          [interaction EXCEPT
              !.pc = "validateSelfServiceForm",
              !.FormState = InputReadState(posted,
                                SelectReadState(TRUE, {"admins"}, postedMemberships, @))]
    /\ UNCHANGED <<engine, nexusVars, slapdVars, ruleVars>>

ValidateSelfServiceForm ==
    /\ interaction # <<>>
    /\ interaction.pc = "validateSelfServiceForm"
    /\ interaction' =
          [interaction EXCEPT
              !.pc = "ShowFormIfErrors",
              !.FormState = validateSelfServiceForm(@, interaction.CurrentUser)]
    /\ UNCHANGED <<engine, nexusVars, slapdVars, ruleVars>>

\* ShowFormIfErrors: an invalid form is rendered and the pipeline ends
ShowFormIfErrors ==
    /\ interaction # <<>>
    /\ interaction.pc = "ShowFormIfErrors"
    /\ interaction' =
          [interaction EXCEPT
              !.pc = IF IsValid(interaction.FormState) THEN "executeSelfServiceForm"
                     ELSE "done"]
    /\ UNCHANGED <<engine, nexusVars, slapdVars, ruleVars>>

ExecuteSelfServiceForm(salt) ==
    /\ interaction # <<>>
    /\ interaction.pc = "executeSelfServiceForm"
    /\ LET newPasswordHash ==
               HashPasswordForLDAP(interaction.FormState["new_password"].Value, salt)
           login == interaction.CurrentUser.LoginName
           result == SelfServiceReducer(FindUser(engine, login), newPasswordHash)
       IN  /\ engine' = ChangeUser(engine, login, result)
           /\ interaction' =
                 [interaction EXCEPT
                     !.pc = "ShowForm",
                     !.calls = @ + 1,
                     !.flash = IF result.err = NoErr
                               THEN <<"success", "Password changed.">>
                               ELSE <<"error", result.err>>]
    /\ UNCHANGED <<nexusVars, slapdVars, ruleVars>>

ShowForm ==
    /\ interaction # <<>>
    /\ interaction.pc = "ShowForm"
    /\ interaction' = [interaction EXCEPT !.pc = "done"]
    /\ UNCHANGED <<engine, nexusVars, slapdVars, ruleVars>>

\* another request deletes the user
OtherDeleteUser ==
    /\ engine # <<>>
    /\ WhoAmI \in DOMAIN engine
    /\ engine' = ChangeUser(engine, WhoAmI, [user |-> <<>>, err |-> NoErr])
    /\ UNCHANGED <<interaction, nexusVars, slapdVars, ruleVars>>

\* another request changes the given name of the user
OtherRenameUser ==
    /\ engine # <<>>
    /\ WhoAmI \in DOMAIN engine
    /\ engine[WhoAmI].GivenName # "Rob"
    /\ engine' = ChangeUser(engine, WhoAmI,
                            [user |-> <<[engine[WhoAmI] EXCEPT !.GivenName = "Rob"]>>,
                             err |-> NoErr])
    /\ UNCHANGED <<interaction, nexusVars, slapdVars, ruleVars>>

\* another request sets the password of the user to "b"
OtherChangePassword ==
    /\ engine # <<>>
    /\ WhoAmI \in DOMAIN engine
    /\ engine[WhoAmI].PasswordHash # HashPasswordForLDAP(<<"b">>, "s1")
    /\ engine' = ChangeUser(engine, WhoAmI,
                            [user |-> <<[engine[WhoAmI] EXCEPT
                                           !.PasswordHash =
                                               HashPasswordForLDAP(<<"b">>, "s1")]>>,
                             err |-> NoErr])
    /\ UNCHANGED <<interaction, nexusVars, slapdVars, ruleVars>>

NextSelf ==
    \/ VerifyLogin
    \/ UseSelfServiceForm
    \/ \E posted \in [PasswordFields -> PasswordInputs],
          postedMemberships \in {{}, {"wheel"}} :
            ReadFormStateFromRequest(posted, postedMemberships)
    \/ ValidateSelfServiceForm
    \/ ShowFormIfErrors
    \/ \E salt \in Salts : ExecuteSelfServiceForm(salt)
    \/ ShowForm
    \/ OtherDeleteUser
    \/ OtherRenameUser
    \/ OtherChangePassword

SpecSelf == InitSelf /\ [][NextSelf]_vars

(***************************************************************************)
(* Properties of the self-service form.                                    *)
(***************************************************************************)
\* the three password fields hold something, the new password is repeated and the old
\* password is the one of the hash in i.CurrentUser
FormGuard(i) ==
    /\ DOMAIN i.FormState = PasswordFields \cup {"memberships"}
    /\ \A f \in PasswordFields : MustNotBeEmpty(i.FormState[f].Value) = NoErr
    /\ i.FormState["new_password"].Value = i.FormState["repeat_password"].Value
    /\ CheckPasswordHash(i.FormState["old_password"].Value, i.CurrentUser.PasswordHash)

ChangeUserCalled == interaction'.calls = interaction.calls + 1

\* C15: a step of the POST /self pipeline calls ChangeUser only if the three password
\* fields passed the non-empty rule, new_password equals repeat_password and
\* old_password matches the password hash of the current user; a step that does not
\* call it leaves the stored users alone, and a request that ends with one of the
\* three conditions failed has never called it; the call changes PasswordHash of the
\* stored user and no other field, and when the login is no longer stored it changes
\* nothing and reports "no such user"
PasswordChangeIsGuarded ==
    [][(interaction # <<>> /\ interaction' # interaction) =>
          /\ ChangeUserCalled => FormGuard(interaction)
          /\ ~ChangeUserCalled => engine' = engine
          /\ (interaction'.pc = "done" /\ ~FormGuard(interaction'))
                => interaction'.calls = 0
          /\ ChangeUserCalled =>
                LET login == interaction.CurrentUser.LoginName
                    new == interaction.FormState["new_password"].Value
                IN  IF login \in DOMAIN engine
                    THEN /\ \E salt \in Salts :
                               engine' = [engine EXCEPT ![login].PasswordHash =
                                             HashPasswordForLDAP(new, salt)]
                         /\ interaction'.flash[1] = "success"
                    ELSE /\ engine' = engine
                         /\ interaction'.flash = <<"error", "no such user">>]_vars

\* the password was changed by the form after another request had renamed the user
PasswordChangedWitness ==
    /\ interaction # <<>>
    /\ interaction.calls = 1
    /\ interaction.flash # <<>>
    /\ interaction.flash[1] = "success"
    /\ WhoAmI \in DOMAIN engine
    /\ engine[WhoAmI].GivenName = "Rob"
    /\ interaction.CurrentUser.GivenName = "Bob"
    /\ CheckPasswordHash(interaction.FormState["new_password"].Value,
                         engine[WhoAmI].PasswordHash)

====
